---- MODULE Spec2Model ----
(***************************************************************************)
(* Model of the OAuth2 token listener of asdc/auth.py (module globals,     *)
(* setup, connect, the embedded /token listener, stop_server,              *)
(* device_connect) and of the API helpers of asdc/__init__.py that read    *)
(* its settings and access token.                                          *)
(*                                                                         *)
(* Environment: a Jupyter notebook kernel (IPython display available,      *)
(* JUPYTERHUB_URL set), one cell running at a time on one event loop.      *)
(* Request handlers of the listener run only while the kernel's event loop *)
(* runs: between cells, during "await asyncio.sleep" in connect and during *)
(* "await _server.close_all_connections()" in stop_server.                 *)
(*                                                                         *)
(* Sleeps are counted in quarters of a second; the wall clock "now" is in  *)
(* whole seconds and saturates at MaxNow, which lies beyond every          *)
(* id_token.exp a payload can carry.                                       *)
(*                                                                         *)
(* The relay of asdc/server.py is a process of its own (ServerApplication  *)
(* and its five handlers). Its handlers are synchronous: each request is   *)
(* one step. The provider answers a code exchange or a refresh with a      *)
(* token set that carries access_token, id_token and expires_at, and the   *)
(* refresh_token the scope 'offline_access' asks for unless the provider   *)
(* does not grant offline access. The relay starts once (module import and *)
(* ServerApplication()); until then its variables hold no request.         *)
(* The files written by utils.write_inputs and utils.write_port are not    *)
(* part of the state.                                                      *)
(***************************************************************************)
EXTENDS Integers, Sequences, FiniteSets, TLC

\* ---------------------------------------------------------------- bounds
MaxNow == 2             \* the clock saturates at MaxNow seconds (beyond every exp)
MaxTimeout == 1         \* timeout_seconds is drawn from 0..MaxTimeout
MaxCycles == 2          \* login cycles (nonces generated) per behaviour
MaxCalls == 1           \* connect/device_connect calls that pass _check_settings

\* ------------------------------------------------------ program constants
TicksPerSecond == 4     \* range(0, timeout_seconds*4)
AsyncSleep == 1         \* asyncio.sleep(0.25), in quarter seconds
BlockingSleep == 1      \* time.sleep(0.25), in quarter seconds
DevicePollInterval == 2 \* time.sleep(2), in seconds
QuartersPerSecond == 4  \* quarter seconds in a second of the wall clock
retries == 5            \* "retries = 5" of CallbackHandler.get

\* ------------------------------------------------------------ value sets
Ports == 1..MaxCycles                    \* a cycle binds at most one new port
NoneT == [py |-> "None"]                 \* Python None
EmptyStr == [py |-> "str"]               \* Python ''
Tokens == {"abc", "xyz"}
ExpValues == {1, MaxNow}                    \* id_token.exp, in seconds
NonceValues == 1..MaxCycles              \* nonces a payload can carry
Payloads == [py : {"dict"}, access_token : Tokens,
             id_token : [nonce : NonceValues, exp : ExpValues]]
Timeouts == 0..MaxTimeout
VerifyArgs == {"absent", "True", "False"}   \* the verify query argument of GET /token
Methods == {"POST", "GET"}
Scopes == {"", "None"}                   \* the scope argument: the default "" or None
Statuses == {200, 399, 400, 404}         \* HTTP status of an API response
\* answers to the device-code request: json says whether the body parses as JSON
DeviceCodeResponses == {[status |-> 200, error |-> FALSE, json |-> TRUE],
                        [status |-> 403, error |-> TRUE, json |-> TRUE],
                        [status |-> 500, error |-> FALSE, json |-> TRUE],
                        [status |-> 500, error |-> FALSE, json |-> FALSE]}
DeviceTokenResponses == {[status |-> 403, access_token |-> ""],
                         [status |-> 200, access_token |-> "dev"],
                         [status |-> 200, access_token |-> ""]}

\* os.getenv values read by setup(None), after load_dotenv
EmptyEnv == [JUPYTER_OAUTH2_CLIENT_ID |-> "", JUPYTER_OAUTH2_DEVICE_CLIENT_ID |-> "",
             JUPYTER_OAUTH2_AUTH_PROVIDER_URL |-> ""]
HubEnv == [JUPYTER_OAUTH2_CLIENT_ID |-> "ENV_CLIENT", JUPYTER_OAUTH2_DEVICE_CLIENT_ID |-> "",
           JUPYTER_OAUTH2_AUTH_PROVIDER_URL |-> "ENV_URL"]
Envs == {EmptyEnv, HubEnv}

\* the config dict of the connect() docstring
DocConfig == [api_client_id |-> "CLIENT_ID_HERE", api_authurl |-> "MY_OAUTH2_PROVIDER_URL",
              provided |-> FALSE]
NoConfig == [none |-> TRUE]              \* config=None
Configs == {NoConfig, DocConfig}

\* relay: token sets the provider issues, and the empty dict of ServerApplication
Generations == {"1", "2"}
TokenSet(g, e) == [py |-> "dict", access_token |-> "at" \o g, refresh_token |-> "rt" \o g,
                   id_token |-> "id" \o g, expires_at |-> e]
\* a token set of a provider that grants no offline access: no refresh_token key
WithoutRefresh(t) == [k \in DOMAIN t \ {"refresh_token"} |-> t[k]]
IssuedSets == {TokenSet(g, e) : g \in Generations, e \in ExpValues}
                 \cup {WithoutRefresh(TokenSet("1", e)) : e \in ExpValues}
\* relay: the keys of a fully populated token set
TokenKeys == {"id_token", "access_token", "refresh_token", "expires_at"}
\* relay: code verifiers generate_token(48) can return, and the digest of one
Verifiers == {"v1", "v2"}
S256(v) == "S256(" \o v \o ")"
NotStarted == [py |-> "not started"]
EmptyDict == [py |-> "{}"]
\* relay: how one call of the token endpoint can end
AttemptOutcomes == {"ok", "ConnectionError", "OAuthError"}
\* relay: the path argument of /redirect and the redirect argument of /import
PathArgs == {"nowhere", "", "nb.ipynb"}
RedirectArgs == {"yes", "no"}
\* relay: "redirected" for JUPYTERHUB_USER=u and no named server
redirected == "/user/u/"
InitialPath == "/"

VARIABLES
    settings,       \* auth.settings
    access_token,   \* auth.access_token
    token_data,     \* auth.token_data
    port,           \* auth.port: 0 is None
    nonce,          \* auth.nonce: 0 is ''
    server,         \* auth._server: None, or the HTTPServer object with its _sockets
    listening,      \* ports on which a listener of this process is bound
    authorize,      \* nonces carried by the authorize pages emitted so far
    pc,             \* position of the running cell
    tick,           \* loop variable i of connect's wait loop
    timeout_seconds,\* argument of the running connect()
    waited,         \* quarter seconds slept by the running connect()
    now,            \* wall clock, whole seconds
    handled,        \* the log line of the last request handled by TokenHandler
    result,         \* outcome of the last call that can fail or use the network
    tokens,         \* relay: ServerApplication.tokens
    redirect_path,  \* relay: ServerApplication.redirect_path
    response,       \* relay: what the last request handled by the relay answered
    pkce            \* relay: the module-level PKCE values of server.py

vars == <<settings, access_token, token_data, port, nonce, server,
          listening, authorize, pc, tick, timeout_seconds, waited, now, handled, result,
          tokens, redirect_path, response, pkce>>

\* the state of the relay process (asdc/server.py)
relayVars == <<tokens, redirect_path, response, pkce>>

\* the state of the kernel process (asdc/auth.py), the wall clock apart
kernelVars == <<settings, access_token, token_data, port, nonce, server, listening,
                authorize, pc, tick, timeout_seconds, waited, handled, result>>

\* ------------------------------------------------------------- helpers
Truthy(v) == v.py = "dict"

NoServer == [py |-> "None", sockets |-> {}]
HTTPServer(socks) == [py |-> "HTTPServer", sockets |-> socks]

Res(op, outcome, net) == [op |-> op, outcome |-> outcome, net |-> net]

NoRequest == "none"

Min(a, b) == IF a <= b THEN a ELSE b

\* relay: the answer to one request; calls counts the calls of the token endpoint it made,
\* last is how the last of them ended, rtoken the refresh token it sent
Resp(req, status, body, exc, calls, last, rtoken) ==
    [req |-> req, status |-> status, body |-> body, exc |-> exc, calls |-> calls,
     last |-> last, rtoken |-> rtoken, proof |-> "none"]

NoResponse == Resp("none", 0, "none", "none", 0, "none", "")

\* auth.py module globals and settings dict
InitSettings == [api_client_id |-> "", api_device_client_id |-> "",
                 api_authurl |-> "MY_OAUTH2_PROVIDER_URL",
                 api_scope |-> <<"openid profile email">>,
                 provided |-> FALSE]

Init ==
    /\ settings = InitSettings
    /\ access_token = ""
    /\ token_data = EmptyStr
    /\ port = 0
    /\ nonce = 0
    /\ server = NoServer
    /\ listening = {}
    /\ authorize = <<>>
    /\ pc = "idle"
    /\ tick = 0
    /\ timeout_seconds = 0
    /\ waited = 0
    /\ now = 0
    /\ handled = NoRequest
    /\ result = Res("import", "ok", FALSE)
    /\ tokens = EmptyDict
    /\ redirect_path = InitialPath
    /\ response = NoResponse
    /\ pkce = NotStarted

\* ------------------------------------------------------------- settings
\* setup(config): the settings after the call; e is what os.getenv returns
setup(config, e) ==
    IF config = NoConfig
    THEN [settings EXCEPT !.api_client_id = e.JUPYTER_OAUTH2_CLIENT_ID,
                          !.api_device_client_id = e.JUPYTER_OAUTH2_DEVICE_CLIENT_ID,
                          !.api_authurl = e.JUPYTER_OAUTH2_AUTH_PROVIDER_URL,
                          !.provided = TRUE]
    ELSE [settings EXCEPT !.api_client_id = config.api_client_id,
                          !.api_authurl = config.api_authurl,
                          !.provided = TRUE]

\* setup() called from a cell, or by the import of the asdc package
Setup(config, e) ==
    /\ pc = "idle"
    /\ settings' = setup(config, e)
    /\ UNCHANGED <<access_token, token_data, port, nonce, server, listening,
                   authorize, pc, tick, timeout_seconds, waited, now, handled, result>>
    /\ UNCHANGED relayVars

\* _check_settings(): TRUE when it raises 'Settings not provided'
SettingsMissing(s) == ~s.provided

\* "if config is not None: setup(config)" of connect and device_connect
WithConfig(config) == IF config = NoConfig THEN settings ELSE setup(config, EmptyEnv)

\* "if scope is not None: settings['api_scope'] += ' ' + scope"
AppendScope(s, scope) ==
    IF scope = "None" THEN s ELSE [s EXCEPT !.api_scope = Append(@, " " \o scope)]

\* ------------------------------------------------------------- listener
\* set_token without the nonce comparison
set_token_unverified(data, verify) == data

\* set_token(data, verify): the token_data it leaves
set_token(data, verify) ==
    IF verify /\ data.id_token.nonce # nonce THEN NoneT ELSE data

\* the logging line of set_token
set_token_log(data, verify) ==
    IF verify /\ data.id_token.nonce # nonce THEN "INVALID TOKEN"
    ELSE IF verify THEN "TOKEN VALIDATED" ELSE "TOKEN Reused"

\* TokenHandler.post / TokenHandler.get: the verify flag handed to set_token
VerifyFlag(method, arg) ==
    IF method = "POST" THEN TRUE
    ELSE (IF arg = "absent" THEN "True" ELSE arg) = "True"

TokenSubmit(method, arg, data) ==
    /\ pc \in {"idle", "sleep", "stopping"}
    /\ listening # {}
    /\ method = "POST" => arg = "absent"
    /\ token_data' = set_token(data, VerifyFlag(method, arg))
    /\ handled' = set_token_log(data, VerifyFlag(method, arg))
    /\ UNCHANGED <<settings, access_token, port, nonce, server, listening,
                   authorize, pc, tick, timeout_seconds, waited, now, result>>
    /\ UNCHANGED relayVars

\* ------------------------------------------------------------- connect
\* an expiry check that renews every cached token
ExpiredAlways(td) == TRUE

\* "dt <= now" of connect: the cached token's id_token.exp is not in the future
Expired(td) == td.id_token.exp <= now

\* "Renew expired token": token_data after the expiry check of connect
AfterExpiryCheck(td) == IF Truthy(td) /\ Expired(td) THEN NoneT ELSE td

\* a timeout that stops the listener before raising
RaiseTimeoutStopped ==
    /\ pc' = "idle"
    /\ tick' = 0
    /\ result' = Res("connect", "timeout", FALSE)
    /\ listening' = listening \ server.sockets
    /\ server' = NoServer
    /\ port' = 0
    /\ UNCHANGED <<settings, access_token, token_data, nonce, authorize, timeout_seconds,
                   waited, now, handled>>

\* raise Exception("Timed out awaiting access token! "): the loop variable goes out of
\* scope, waited and timeout_seconds keep what the failed call measured
RaiseTimeout ==
    /\ pc' = "idle"
    /\ tick' = 0
    /\ result' = Res("connect", "timeout", FALSE)
    /\ UNCHANGED <<settings, access_token, token_data, port, nonce, server, listening,
                   authorize, timeout_seconds, waited, now, handled>>

\* a _send that emits the page with a fresh nonce it does not store in the global
StartCycleNonceLocal(s, td, n) ==
    /\ Len(authorize) < MaxCycles
    /\ \E p \in Ports :
          /\ IF port = 0 THEN p \notin listening ELSE p = port
          /\ p \notin listening
          /\ server' = HTTPServer({p})
          /\ listening' = listening \cup {p}
          /\ port' = p
    /\ authorize' = Append(authorize, Len(authorize) + 1)
    /\ settings' = s
    /\ token_data' = td
    /\ pc' = "check"
    /\ tick' = 0
    /\ waited' = 0
    /\ timeout_seconds' = n
    /\ result' = Res("connect", "pending", FALSE)
    /\ UNCHANGED <<nonce, access_token, now, handled>>

\* _serve(), _listener(), _send(mode) and the start of the wait loop
StartCycle(s, td, n) ==
    /\ nonce < MaxCycles
    /\ \E p \in Ports :
          /\ IF port = 0 THEN p \notin listening ELSE p = port
          /\ p \notin listening
          /\ server' = HTTPServer({p})
          /\ listening' = listening \cup {p}
          /\ port' = p
    /\ nonce' = nonce + 1
    /\ authorize' = Append(authorize, nonce')
    /\ settings' = s
    /\ token_data' = td
    /\ pc' = "check"
    /\ tick' = 0
    /\ waited' = 0
    /\ timeout_seconds' = n
    /\ result' = Res("connect", "pending", FALSE)
    /\ UNCHANGED <<access_token, now, handled>>

\* _serve() when the port is still held by an earlier listener: listen() raises OSError
\* after _server has been rebound to the new server object
BindFails(s, td) ==
    /\ port # 0
    /\ port \in listening
    /\ server' = HTTPServer({})
    /\ settings' = s
    /\ token_data' = td
    /\ result' = Res("connect", "OSError", FALSE)
    /\ UNCHANGED <<access_token, port, nonce, listening, authorize, pc, tick,
                   timeout_seconds, waited, now, handled>>

ConnectStart(config, n, scope) ==
    /\ pc = "idle"
    /\ LET s1 == WithConfig(config)
           s2 == AppendScope(s1, scope)
           td == AfterExpiryCheck(token_data)
       IN  IF SettingsMissing(s1)
           THEN /\ result' = Res("connect", "Settings not provided", FALSE)
                /\ UNCHANGED <<settings, access_token, token_data, port, nonce, server,
                               listening, authorize, pc, tick, timeout_seconds, waited, now,
                               handled>>
           ELSE /\ scope # "None" => Len(s1.api_scope) <= MaxCalls
                /\ IF Truthy(td)
                   THEN /\ settings' = s2
                        /\ result' = Res("connect", "Already have a valid token", FALSE)
                        /\ UNCHANGED <<access_token, token_data, port, nonce, server,
                                       listening, authorize, pc, tick, timeout_seconds,
                                       waited, now, handled>>
                   ELSE StartCycle(s2, td, n) \/ BindFails(s2, td)
    /\ UNCHANGED relayVars

\* a success path that forgets to extract the access token
ReceiveTokenStale ==
    /\ pc' = "stopping"
    /\ UNCHANGED <<settings, access_token, token_data, port, nonce, server, listening,
                   authorize, tick, timeout_seconds, waited, now, handled, result>>

\* "access_token = token_data['access_token']", up to the await in stop_server()
ReceiveToken ==
    /\ access_token' = token_data.access_token
    /\ pc' = "stopping"
    /\ UNCHANGED <<settings, token_data, port, nonce, server, listening,
                   authorize, tick, timeout_seconds, waited, now, handled, result>>

\* a wait loop that leaves on anything but the initial ''
ConnectPollAnyAnswer ==
    /\ pc = "check"
    /\ IF token_data # EmptyStr \/ tick = timeout_seconds * TicksPerSecond
       THEN IF ~Truthy(token_data) THEN RaiseTimeout ELSE ReceiveToken
       ELSE /\ pc' = "sleep"
            /\ UNCHANGED <<settings, access_token, token_data, port, nonce, server,
                           listening, authorize, tick, timeout_seconds, waited, now, handled,
                           result>>
    /\ UNCHANGED relayVars

\* one pass through "if token_data: break" at the head of the loop, or the loop's end
ConnectPoll ==
    /\ pc = "check"
    /\ IF Truthy(token_data) \/ tick = timeout_seconds * TicksPerSecond
       THEN IF ~Truthy(token_data) THEN RaiseTimeout ELSE ReceiveToken
       ELSE /\ pc' = "sleep"
            /\ UNCHANGED <<settings, access_token, token_data, port, nonce, server,
                           listening, authorize, tick, timeout_seconds, waited, now, handled,
                           result>>
    /\ UNCHANGED relayVars

\* "await asyncio.sleep(0.25)" then "time.sleep(0.25)"
ConnectSleep ==
    /\ pc = "sleep"
    /\ waited' = waited + AsyncSleep + BlockingSleep
    /\ now' = IF waited' % QuartersPerSecond = 0 THEN Min(now + 1, MaxNow) ELSE now
    /\ tick' = tick + 1
    /\ pc' = "check"
    /\ UNCHANGED <<settings, access_token, token_data, port, nonce, server, listening,
                   authorize, timeout_seconds, handled, result>>
    /\ UNCHANGED relayVars

\* ------------------------------------------------------------- stop_server
\* stop_server() called from a cell
StopServerCall ==
    /\ pc = "idle"
    /\ IF server = NoServer
       THEN /\ result' = Res("stop_server", "AttributeError", FALSE)
            /\ UNCHANGED pc
       ELSE /\ result' = Res("stop_server", "pending", FALSE)
            /\ pc' = "stopping"
    /\ UNCHANGED <<settings, access_token, token_data, port, nonce, server, listening,
                   authorize, tick, timeout_seconds, waited, now, handled>>
    /\ UNCHANGED relayVars

\* a stop_server that stops the listener but keeps the port variable
StopServerKeepsPort ==
    /\ pc = "stopping"
    /\ listening' = listening \ server.sockets
    /\ server' = NoServer
    /\ pc' = "idle"
    /\ result' = Res(result.op, "ok", FALSE)
    /\ tick' = 0
    /\ waited' = 0
    /\ timeout_seconds' = 0
    /\ UNCHANGED <<settings, access_token, token_data, port, nonce, authorize, now, handled>>
    /\ UNCHANGED relayVars

\* the body of stop_server() after "await _server.close_all_connections()"
StopServerFinish ==
    /\ pc = "stopping"
    /\ listening' = listening \ server.sockets
    /\ server' = NoServer
    /\ port' = 0
    /\ pc' = "idle"
    /\ result' = Res(result.op, "ok", FALSE)
    /\ tick' = 0
    /\ waited' = 0
    /\ timeout_seconds' = 0
    /\ UNCHANGED <<settings, access_token, token_data, nonce, authorize, now, handled>>
    /\ UNCHANGED relayVars

\* ------------------------------------------------------------- time
PassTime ==
    /\ pc = "idle"
    /\ now < MaxNow
    /\ now' = now + 1
    /\ UNCHANGED <<settings, access_token, token_data, port, nonce, server, listening,
                   authorize, pc, tick, timeout_seconds, waited, handled, result>>
    /\ UNCHANGED relayVars

\* ------------------------------------------------------------- device_connect
\* "if len(settings['api_device_client_id']) == 0: ..." of device_connect
DefaultDeviceClient(s) ==
    IF Len(s.api_device_client_id) = 0
    THEN [s EXCEPT !.api_device_client_id = s.api_client_id] ELSE s

\* device_connect up to the device-code request; resp is the provider's answer
DeviceStart(config, scope, resp) ==
    /\ pc = "idle"
    /\ LET s1 == WithConfig(config)
           s3 == AppendScope(DefaultDeviceClient(s1), scope)
       IN  IF SettingsMissing(s1)
           THEN /\ result' = Res("device_connect", "Settings not provided", FALSE)
                /\ UNCHANGED <<settings, pc>>
           ELSE /\ scope # "None" => Len(s1.api_scope) <= MaxCalls
                /\ settings' = s3
                /\ IF ~resp.json
                   THEN /\ result' = Res("device_connect", "JSONDecodeError", TRUE)
                        /\ UNCHANGED pc
                   ELSE IF resp.status >= 500 \/ resp.error
                   THEN /\ result' = Res("device_connect", "returned", TRUE)
                        /\ UNCHANGED pc
                   ELSE /\ result' = Res("device_connect", "pending", TRUE)
                        /\ pc' = "dpoll"
    /\ UNCHANGED <<access_token, token_data, port, nonce, server, listening, authorize,
                   tick, timeout_seconds, waited, now, handled>>
    /\ UNCHANGED relayVars

\* one pass of "while not logged_in": sleep, poll the token endpoint
DevicePoll(resp, notebook) ==
    /\ pc = "dpoll"
    /\ now' = Min(now + DevicePollInterval, MaxNow)
    /\ IF resp.access_token # ""
       THEN /\ access_token' = resp.access_token
            /\ pc' = "idle"
            /\ result' = Res("device_connect", "ok", TRUE)
       ELSE /\ UNCHANGED access_token
            /\ IF resp.status = 200 /\ ~notebook
               THEN /\ pc' = "idle"
                    /\ result' = Res("device_connect", "no token", TRUE)
               ELSE UNCHANGED <<pc, result>>
    /\ UNCHANGED <<settings, token_data, port, nonce, server, listening, authorize,
                   tick, timeout_seconds, waited, handled>>
    /\ UNCHANGED relayVars

\* ------------------------------------------------------------- API helpers
\* a call_api that raises on every error status
call_api_raising(status, throw) ==
    IF status >= 400 THEN "raised" ELSE "returned"

\* "if r.status_code >= 400: ... if throw: raise(Exception(...))" and "return r" of call_api
call_api(status, throw) ==
    IF status >= 400 /\ throw THEN "raised" ELSE "returned"

\* call_api(url, data, throw=throw); status is the server's answer
CallApi(status, throw) ==
    /\ pc = "idle"
    /\ result' = [op |-> "call_api", outcome |-> call_api(status, throw), net |-> TRUE,
                  status |-> status, throw |-> throw]
    /\ UNCHANGED <<settings, access_token, token_data, port, nonce, server, listening,
                   authorize, pc, tick, timeout_seconds, waited, now, handled>>
    /\ UNCHANGED relayVars

\* download(url, filename, overwrite=overwrite); exists: the local file is already there
Download(exists, overwrite, status) ==
    /\ pc = "idle"
    /\ result' = IF ~overwrite /\ exists THEN Res("download", "File exists", FALSE)
                 ELSE IF status >= 400 THEN Res("download", "None", TRUE)
                 ELSE Res("download", "saved", TRUE)
    /\ UNCHANGED <<settings, access_token, token_data, port, nonce, server, listening,
                   authorize, pc, tick, timeout_seconds, waited, now, handled>>
    /\ UNCHANGED relayVars

\* upload(url, filepath) of a file that exists
Upload(status) ==
    /\ pc = "idle"
    /\ result' = Res("upload", "posted", TRUE)
    /\ UNCHANGED <<settings, access_token, token_data, port, nonce, server, listening,
                   authorize, pc, tick, timeout_seconds, waited, now, handled>>
    /\ UNCHANGED relayVars

\* ------------------------------------------------------------- relay (server.py)
\* the module-level calls of the PKCE section, in the order the import runs them
StartupCalls == <<"generate_token", "create_s256_code_challenge", "OAuth2SessionProxy",
                  "create_authorization_url">>

\* the module-level PKCE values for the verifier v that generate_token(48) returned
PkceSetup(v) ==
    [py |-> "started", code_verifier |-> v, code_challenge |-> S256(v),
     state |-> "audience+server+timestamp",
     auth_uri |-> [endpoint |-> "authorize", code_challenge |-> S256(v),
                   code_challenge_method |-> "S256", state |-> "audience+server+timestamp"],
     startup |-> StartupCalls]

\* the relay process starts: the import of server.py, then ServerApplication()
RelayStart(v) ==
    /\ pkce = NotStarted
    /\ pkce' = PkceSetup(v)
    /\ tokens' = EmptyDict
    /\ redirect_path' = InitialPath
    /\ response' = NoResponse
    /\ UNCHANGED <<kernelVars, now>>

\* RootHandler.get
RootGet ==
    /\ pkce # NotStarted
    /\ response' = Resp("root", 200,
                        IF tokens # EmptyDict THEN "authenticated" ELSE "not authenticated",
                        "none", 0, "none", "")
    /\ UNCHANGED <<tokens, redirect_path, kernelVars, now>>
    /\ UNCHANGED pkce

\* "self.application.redirect_path = ..." of RedirectHandler.get
StoredPath(path) ==
    IF path = "nowhere" THEN "" ELSE redirected \o "lab/tree/" \o path

\* a /redirect that builds a new authorize URL, with a new state, for each request
RedirectGetFreshUrl(path) ==
    /\ pkce # NotStarted
    /\ redirect_path' = StoredPath(path)
    /\ response' = Resp("redirect", 302, [pkce.auth_uri EXCEPT !.state = "fresh"],
                        "none", 0, "none", "")
    /\ UNCHANGED <<tokens, kernelVars, now>>
    /\ UNCHANGED pkce

\* RedirectHandler.get with the query argument path
RedirectGet(path) ==
    /\ pkce # NotStarted
    /\ redirect_path' = StoredPath(path)
    /\ response' = Resp("redirect", 302, pkce.auth_uri, "none", 0, "none", "")
    /\ UNCHANGED <<tokens, kernelVars, now>>
    /\ UNCHANGED pkce

\* ImportHandler.get with the query argument redirect
ImportGet(redirect) ==
    /\ pkce # NotStarted
    /\ IF "access_token" \notin DOMAIN tokens
       THEN /\ redirect_path' = redirected \o "asdc/" \o "import?project=1&task=t&name=n"
            /\ response' = Resp("import", 302, pkce.auth_uri, "none", 0, "none", "")
       ELSE /\ UNCHANGED redirect_path
            /\ response' = IF redirect = "yes"
                           THEN Resp("import", 302, redirected \o "lab/tree/n/load.py",
                                     "none", 0, "none", "")
                           ELSE Resp("import", 500, "none", "NameError", 0, "none", "")
    /\ UNCHANGED <<tokens, kernelVars, now>>
    /\ UNCHANGED pkce

\* a /tokens that answers 200 with whatever application.tokens holds
NotFoundAsEmpty == Resp("tokens", 200, EmptyDict, "none", 0, "none", "")

\* "raise tornado.web.HTTPError(status_code=404, ...)" of TokensHandler.get
NotFound == Resp("tokens", 404, "none", "HTTPError", 0, "none", "")

\* the "if dt <= now:" branch of TokensHandler.get: one refresh_token call, the new
\* tokens if it returns and the original ones if it raises
Refreshed(tok, ok, new) ==
    Resp("tokens", 200, IF ok THEN new ELSE tok, "none", 1,
         IF ok THEN "ok" ELSE "Exception", tok.refresh_token)

\* TokensHandler.get; ok and new are the provider's answer to a refresh call
TokensGet(ok, new) ==
    /\ pkce # NotStarted
    /\ response' = IF tokens = EmptyDict THEN NotFound
                   ELSE IF tokens.expires_at <= now
                   THEN IF "refresh_token" \in DOMAIN tokens
                        THEN Refreshed(tokens, ok, new)
                        ELSE Resp("tokens", 500, "none", "KeyError", 0, "none", "")
                   ELSE Resp("tokens", 200, tokens, "none", 0, "none", "")
    /\ UNCHANGED <<tokens, redirect_path, kernelVars, now>>
    /\ UNCHANGED pkce

\* the "for i in range(retries)" loop of CallbackHandler.get from iteration i on:
\* the calls of fetch_token made and how the last one ended
RECURSIVE FetchLoop(_, _)
FetchLoop(outcomes, i) ==
    IF outcomes[i] = "ConnectionError" /\ i < retries
    THEN FetchLoop(outcomes, i + 1)
    ELSE [calls |-> i, last |-> outcomes[i]]

\* the exception CallbackHandler.get ends with: one fetch_token let through, or the
\* unbound local "tokens" at "self.application.tokens = tokens" when no call returned
CallbackException(loop) ==
    IF loop.last = "ok" THEN "none"
    ELSE IF loop.last = "ConnectionError" THEN "UnboundLocalError"
    ELSE loop.last

\* a callback that stores a token set although the provider refused the exchange
AfterCallbackStoresAnyway(old, loop, new) ==
    IF loop.last \in {"ok", "OAuthError"} THEN new ELSE old

\* a callback whose token variable starts out as an empty dict
AfterCallbackReset(old, loop, new) ==
    IF loop.last = "ok" THEN new
    ELSE IF loop.last = "ConnectionError" THEN EmptyDict ELSE old

\* application.tokens after CallbackHandler.get
AfterCallback(old, loop, new) ==
    IF loop.last = "ok" THEN new ELSE old

\* CallbackHandler.get; outcomes are the ends of the fetch_token calls, new the token set
\* the provider issues when one returns
CallbackGet(outcomes, new) ==
    /\ pkce # NotStarted
    /\ new.expires_at > now \/ now = MaxNow
    /\ LET loop == FetchLoop(outcomes, 1)
       IN  /\ tokens' = AfterCallback(tokens, loop, new)
           /\ response' =
                 [(IF loop.last # "ok"
                   THEN Resp("callback", 500, "none", CallbackException(loop),
                             loop.calls, loop.last, "")
                   ELSE IF Len(redirect_path) = 0
                   THEN Resp("callback", 200, "nowhere_doc", "none", loop.calls, "ok", "")
                   ELSE Resp("callback", 302, redirect_path, "none", loop.calls, "ok", ""))
                  EXCEPT !.proof = [code_verifier |-> pkce.code_verifier,
                                    state |-> pkce.state]]
    /\ UNCHANGED <<redirect_path, kernelVars, now>>
    /\ UNCHANGED pkce

\* ------------------------------------------------------------- specifications
Next ==
    \/ \E c \in Configs, e \in Envs : Setup(c, e)
    \/ \E c \in Configs, n \in Timeouts, sc \in Scopes : ConnectStart(c, n, sc)
    \/ ConnectPoll
    \/ ConnectSleep
    \/ \E m \in Methods, a \in VerifyArgs, d \in Payloads : TokenSubmit(m, a, d)
    \/ StopServerCall
    \/ StopServerFinish
    \/ PassTime
    \/ \E c \in Configs, sc \in Scopes, r \in DeviceCodeResponses : DeviceStart(c, sc, r)
    \/ \E r \in DeviceTokenResponses, nb \in BOOLEAN : DevicePoll(r, nb)
    \/ \E st \in Statuses, th \in BOOLEAN : CallApi(st, th)
    \/ \E ex \in BOOLEAN, ov \in BOOLEAN, st \in Statuses : Download(ex, ov, st)
    \/ \E st \in Statuses : Upload(st)
    \/ \E v \in Verifiers : RelayStart(v)
    \/ RootGet
    \/ \E p \in PathArgs : RedirectGet(p)
    \/ \E r \in RedirectArgs : ImportGet(r)
    \/ \E ok \in BOOLEAN, new \in IssuedSets : TokensGet(ok, new)
    \/ \E o \in [1..retries -> AttemptOutcomes], new \in IssuedSets : CallbackGet(o, new)

Spec == Init /\ [][Next]_vars

\* The login flow on its own: settings come from the environment of a configured hub and
\* every call leaves them alone (config=None, scope=None).
NextLogin ==
    \/ Setup(NoConfig, HubEnv)
    \/ \E n \in Timeouts : ConnectStart(NoConfig, n, "None")
    \/ ConnectPoll
    \/ ConnectSleep
    \/ \E m \in Methods, a \in VerifyArgs, d \in Payloads : TokenSubmit(m, a, d)
    \/ StopServerCall
    \/ StopServerFinish
    \/ PassTime

SpecLogin == Init /\ [][NextLogin]_vars

\* The configuration contract: every way of providing settings and every operation that
\* checks or uses them; the browser delivers the payload of the running cycle only.
NextConfig ==
    \/ \E c \in Configs, e \in Envs : Setup(c, e)
    \/ \E c \in Configs, sc \in Scopes : ConnectStart(c, MaxTimeout, sc)
    \/ ConnectPoll
    \/ ConnectSleep
    \/ \E d \in Payloads : d.access_token = "abc" /\ d.id_token.nonce = nonce
                           /\ d.id_token.exp = MaxNow /\ TokenSubmit("GET", "absent", d)
    \/ StopServerFinish
    \/ \E c \in Configs, sc \in Scopes, r \in DeviceCodeResponses : DeviceStart(c, sc, r)
    \/ \E r \in DeviceTokenResponses, nb \in BOOLEAN : DevicePoll(r, nb)
    \/ \E st \in Statuses, th \in BOOLEAN : CallApi(st, th)
    \/ \E ex \in BOOLEAN, ov \in BOOLEAN, st \in Statuses : Download(ex, ov, st)
    \/ \E st \in Statuses : Upload(st)

SpecConfig == Init /\ [][NextConfig]_vars

\* The relay process on its own: every request a browser or the kernel can send it, every
\* answer the provider can give, and the passing of time.
NextRelay ==
    \/ \E v \in Verifiers : RelayStart(v)
    \/ RootGet
    \/ \E p \in PathArgs : RedirectGet(p)
    \/ \E r \in RedirectArgs : ImportGet(r)
    \/ \E ok \in BOOLEAN, new \in IssuedSets : TokensGet(ok, new)
    \/ \E o \in [1..retries -> AttemptOutcomes], new \in IssuedSets : CallbackGet(o, new)
    \/ PassTime

SpecRelay == Init /\ [][NextRelay]_vars

\* ------------------------------------------------------------- outcomes
TimedOut == Res("connect", "timeout", FALSE)
AlreadyValid == Res("connect", "Already have a valid token", FALSE)
Connected == Res("connect", "ok", FALSE)
OneTick == AsyncSleep + BlockingSleep

\* ------------------------------------------------------------- claims

C2_MatchingTokenCompletesLogin ==
    [][/\ \A m \in Methods, a \in VerifyArgs, d \in Payloads :
            (/\ pc = "sleep"
             /\ (m = "POST" \/ a # "False")
             /\ d.id_token.nonce = nonce
             /\ d.id_token.exp > now
             /\ TokenSubmit(m, a, d)) => token_data' = d
       /\ (ConnectPoll /\ Truthy(token_data)) =>
             /\ access_token' = token_data.access_token
             /\ pc' = "stopping"
             /\ result' = Res("connect", "pending", FALSE)
       /\ (StopServerFinish /\ result.op = "connect") =>
             /\ result' = Connected
             /\ pc' = "idle"
             /\ UNCHANGED <<access_token, token_data>>]_vars

C2_Witness ==
    /\ pc = "idle"
    /\ result = Connected
    /\ handled = "TOKEN VALIDATED"
    /\ Truthy(token_data)
    /\ token_data.access_token = "abc"
    /\ access_token = "abc"

\* C3: connect() with a cached token whose exp is in the future returns 'Already have a
\* valid token' and binds no listener, generates no nonce and emits no authorize page.
C3_ValidCachedTokenShortCircuits ==
    [][\A c \in Configs, n \in Timeouts, sc \in Scopes :
          (/\ ConnectStart(c, n, sc)
           /\ ~SettingsMissing(WithConfig(c))
           /\ Truthy(token_data)
           /\ token_data.id_token.exp > now) =>
              /\ result' = AlreadyValid
              /\ pc' = "idle"
              /\ UNCHANGED <<listening, server, port, nonce, authorize, token_data>>]_vars

C3_Witness ==
    /\ result = AlreadyValid
    /\ Truthy(token_data)
    /\ token_data.id_token.exp > now
    /\ listening = {}
    /\ server = NoServer
    /\ Len(authorize) = 1

\* C4 (as claimed): connect() with a cached token whose exp is not in the future discards it
\* and starts a fresh cycle: a listener is bound, a new nonce generated, a page emitted.
C4_ExpiredTokenStartsFreshCycle ==
    [][\A c \in Configs, n \in Timeouts, sc \in Scopes :
          (/\ ConnectStart(c, n, sc)
           /\ ~SettingsMissing(WithConfig(c))
           /\ Truthy(token_data)
           /\ token_data.id_token.exp <= now) =>
              /\ token_data' = NoneT
              /\ result' # AlreadyValid
              /\ pc' = "check"
              /\ nonce' # nonce
              /\ Len(authorize') = Len(authorize) + 1
              /\ server'.sockets # {}
              /\ server'.sockets \subseteq listening'
              /\ ~(server'.sockets \subseteq listening)]_vars

\* C5 (as claimed): once connect() has failed by timeout, no listener remains and the port
\* is cleared.
C5_TimeoutReleasesPort ==
    result = TimedOut => (server = NoServer /\ port = 0 /\ listening = {})

\* C5 (amended): connect() fails by timeout when the loop ends with no verified token, and
\* after that failure its listener is still running on the port still held in port.
C5_TimeoutLeavesListenerRunning ==
    /\ [](result = TimedOut =>
             /\ pc = "idle"
             /\ port # 0
             /\ server = HTTPServer({port})
             /\ port \in listening)
    /\ [][(/\ ConnectPoll
           /\ ~Truthy(token_data)
           /\ tick = timeout_seconds * TicksPerSecond) => result' = TimedOut]_vars

C5_Witness == result = TimedOut /\ port \in listening /\ timeout_seconds = MaxTimeout

\* C6 (as claimed): when connect() fails by timeout the time it has slept, iterations times
\* the two pauses of an iteration, is timeout_seconds to within one polling tick.
C6_TimeoutWaitsNSeconds ==
    result = TimedOut =>
        /\ waited <= timeout_seconds * QuartersPerSecond + OneTick
        /\ waited + OneTick >= timeout_seconds * QuartersPerSecond

\* C7 (as claimed): after a timed-out connect() and a later verified delivery of a token
\* that is still valid, the next connect() returns without a new cycle and access_token is
\* that token.
C7_LateTokenFoundByNextConnect ==
    [][\A c \in Configs, n \in Timeouts, sc \in Scopes :
          (/\ ConnectStart(c, n, sc)
           /\ result = TimedOut
           /\ handled = "TOKEN VALIDATED"
           /\ Truthy(token_data)
           /\ token_data.id_token.exp > now) =>
              /\ result' = AlreadyValid
              /\ UNCHANGED <<listening, nonce, authorize>>
              /\ access_token' = token_data.access_token]_vars

\* C8: a fresh login that succeeds takes access_token from the stored payload, then stops
\* its listener, drops the server object and clears port before connect() returns.
C8_SuccessStopsListener ==
    /\ []((pc = "idle" /\ result = Connected) =>
             (server = NoServer /\ port = 0 /\ access_token \in Tokens))
    /\ [][/\ (ConnectPoll /\ Truthy(token_data)) =>
               (access_token' = token_data.access_token /\ server' = server)
          /\ (StopServerFinish /\ result.op = "connect") =>
               /\ server = HTTPServer({port})
               /\ listening' = listening \ {port}
               /\ server' = NoServer
               /\ port' = 0]_vars

C8_Witness ==
    /\ pc = "idle"
    /\ result = Connected
    /\ server = NoServer
    /\ port = 0
    /\ access_token \in Tokens
    /\ nonce = MaxCycles

C10_EmptyEnvSettingsRefused ==
    [][(/\ settings.api_client_id = "" \/ settings.api_authurl = ""
        /\ \/ \E n \in Timeouts, sc \in Scopes : ConnectStart(NoConfig, n, sc)
           \/ \E sc \in Scopes, r \in DeviceCodeResponses : DeviceStart(NoConfig, sc, r)) =>
              /\ result'.outcome = "Settings not provided"
              /\ ~result'.net
              /\ listening' = listening]_vars

\* C11 (as claimed): a GET /tokens with a cached token set whose expires_at is not in the
\* future makes exactly one refresh call; when that call fails the answer is 200 with the
\* cached token set, which stays as it was, and no error.
C11_RefreshFailureReturnsCached ==
    [][\A ok \in BOOLEAN, new \in IssuedSets :
          (tokens # EmptyDict /\ tokens.expires_at <= now /\ TokensGet(ok, new)) =>
             /\ response'.calls = 1
             /\ ~ok => /\ response'.status = 200
                       /\ response'.exc = "none"
                       /\ response'.body = tokens
                       /\ tokens' = tokens]_vars

\* C12 (as claimed): after a /tokens whose refresh call succeeded, application.tokens is the
\* refreshed set, and a following /tokens before the new expiry returns that set without
\* another refresh call.
C12_RefreshReplacesCachedSet ==
    /\ []((response.req = "tokens" /\ response.last = "ok") => tokens = response.body)
    /\ [][(/\ response.req = "tokens" /\ response.last = "ok"
           /\ response.body.expires_at > now
           /\ response' # response
           /\ response'.req = "tokens") =>
             /\ response'.calls = 0
             /\ response'.body = response.body]_vars

\* C13: once application.tokens is non-empty no request makes it empty again, whatever the
\* provider answers to a refresh or a code exchange.
C13_AuthenticatedNeverDrops ==
    [][tokens # EmptyDict => tokens' # EmptyDict]_vars

C13_Witness ==
    /\ tokens # EmptyDict
    /\ response.req = "callback"
    /\ response.status = 500
    /\ response.calls = retries
    /\ response.last = "ConnectionError"

\* C14: a GET /tokens while application.tokens is still the empty dict answers 404, calls
\* the token endpoint not at all, carries no token data and leaves the dict empty.
C14_TokensBeforeExchangeNotFound ==
    [][\A ok \in BOOLEAN, new \in IssuedSets :
          (tokens = EmptyDict /\ TokensGet(ok, new)) =>
             /\ response'.status = 404
             /\ response'.calls = 0
             /\ response'.body = "none"
             /\ response'.rtoken = ""
             /\ tokens' = EmptyDict]_vars

C14_Witness ==
    /\ response.req = "tokens"
    /\ response.status = 404
    /\ response.body = "none"
    /\ tokens = EmptyDict

\* C15 (as claimed): /callback calls fetch_token at most retries times, goes on only after a
\* connection error, and when every call ended in a connection error the exception it ends
\* with is that connection error.
C15_ExchangeRetriesSurfaceLastException ==
    response.req = "callback" =>
       /\ response.calls <= retries
       /\ response.calls < retries => response.last # "ConnectionError"
       /\ (response.calls = retries /\ response.last = "ConnectionError") =>
             response.exc = "ConnectionError"

\* C16 (as claimed): a successful /callback serves the self-closing page when no /redirect
\* or /import has stored a target path (the path is the initial one, or the empty one of
\* path=nowhere), and redirects to the stored path otherwise.
C16_CallbackWithoutStoredPathServesPage ==
    (response.req = "callback" /\ response.last = "ok") =>
       IF redirect_path \in {InitialPath, ""}
       THEN response.status = 200 /\ response.body = "nowhere_doc"
       ELSE response.status = 302 /\ response.body = redirect_path

\* C17: call_api raises exactly when the status is >= 400 and the caller passed throw=True;
\* in every other case, every status with throw false and every status < 400, it returns
\* the response.
C17_CallApiRaisesOnlyOnRequest ==
    result.op = "call_api" =>
       /\ result.outcome \in {"raised", "returned"}
       /\ result.outcome = "raised" <=> (result.status >= 400 /\ result.throw)

C17_Witness ==
    /\ result.op = "call_api"
    /\ result.status >= 400
    /\ ~result.throw
    /\ result.outcome = "returned"

\* C18 (as claimed): every pass of device_connect's loop sleeps the 2 second interval and
\* polls once; it returns exactly when the answer carries an access_token, which is then the
\* module's access_token, and keeps polling after every other answer.
C18_DevicePollsUntilToken ==
    [][\A r \in DeviceTokenResponses, nb \in BOOLEAN :
          DevicePoll(r, nb) =>
             /\ now' = Min(now + DevicePollInterval, MaxNow)
             /\ IF r.access_token # ""
                THEN pc' = "idle" /\ access_token' = r.access_token
                ELSE pc' = "dpoll" /\ access_token' = access_token]_vars

\* C19 (as claimed): once a verified payload carrying the current nonce has been stored, a
\* second verified submission carrying the same nonce does not replace token_data.
C19_NonceAcceptedOnce ==
    [][\A m \in Methods, a \in VerifyArgs, d \in Payloads :
          (/\ handled = "TOKEN VALIDATED"
           /\ Truthy(token_data)
           /\ token_data.id_token.nonce = nonce
           /\ d.id_token.nonce = nonce
           /\ VerifyFlag(m, a)
           /\ TokenSubmit(m, a, d)) => token_data' = token_data]_vars

\* C20: a payload rejected while connect() waits leaves token_data None, which the loop takes
\* for no token: the next check goes back to sleep, or raises the timeout when the loop is at
\* its end; a payload with the cycle's nonce submitted after the rejection is still stored.
C20_RejectedPayloadKeepsWaiting ==
    /\ [][(ConnectPoll /\ handled = "INVALID TOKEN") =>
            /\ access_token' = access_token
            /\ IF tick < timeout_seconds * TicksPerSecond
               THEN pc' = "sleep" /\ result' = Res("connect", "pending", FALSE)
               ELSE pc' = "idle" /\ result' = TimedOut]_vars
    /\ []((pc = "sleep" /\ handled = "INVALID TOKEN") =>
            \A d \in Payloads : d.id_token.nonce = nonce => set_token(d, TRUE) = d)

C20_Witness ==
    /\ pc = "check"
    /\ handled = "INVALID TOKEN"
    /\ token_data = NoneT
    /\ nonce = 1
    /\ tick >= 1
    /\ tick < timeout_seconds * TicksPerSecond

\* C21: the page of a login cycle carries the nonce the cycle stored; a bound listener never
\* sees the empty initial nonce; a verified submission stored while connect() runs carries
\* the nonce of the cycle's page; a payload carrying the nonce of an earlier page is rejected.
C21_NonceStoredBeforePage ==
    /\ [](Len(authorize) > 0 => authorize[Len(authorize)] = nonce)
    /\ [](listening # {} => nonce # 0)
    /\ [](\A d \in Payloads :
            (/\ \E i \in DOMAIN authorize : authorize[i] = d.id_token.nonce
             /\ d.id_token.nonce # authorize[Len(authorize)]) => set_token(d, TRUE) = NoneT)
    /\ [][(/\ pc \in {"sleep", "stopping"}
           /\ handled' = "TOKEN VALIDATED"
           /\ token_data' # token_data) =>
             token_data'.id_token.nonce = authorize[Len(authorize)]]_vars

C21_Witness ==
    /\ Len(authorize) >= 2
    /\ nonce = authorize[Len(authorize)]
    /\ pc = "sleep"
    /\ handled = "TOKEN VALIDATED"
    /\ Truthy(token_data)
    /\ token_data.id_token.nonce = nonce

\* C22 (as claimed): the /callback that redirects to the stored path clears it: a second
\* successful /callback that directly follows it does not redirect to that path again.
C22_StoredPathConsumedOnce ==
    [][(/\ response.req = "callback" /\ response.status = 302
        /\ response.body = redirect_path /\ redirect_path # InitialPath
        /\ response'.req = "callback" /\ response'.last = "ok") =>
          ~(response'.status = 302 /\ response'.body = response.body)]_vars

\* C23 (as claimed): with settings provided, connect() and device_connect() called with
\* config=None and the default scope leave every field of settings as it was.
C23_SettingsReadOnlyAfterSetup ==
    [][(/\ settings.provided
        /\ \/ \E n \in Timeouts : ConnectStart(NoConfig, n, "")
           \/ \E r \in DeviceCodeResponses : DeviceStart(NoConfig, "", r)) =>
          settings' = settings]_vars

\* C24 (as claimed): application.tokens is empty or has all of id_token, access_token,
\* refresh_token and expires_at, and /tokens answers with no token set missing one of them.
C24_TokenSetEmptyOrComplete ==
    /\ (tokens = EmptyDict \/ TokenKeys \subseteq DOMAIN tokens)
    /\ (response.req = "tokens" /\ response.status = 200) =>
          TokenKeys \subseteq DOMAIN response.body

\* C25: once the relay has started its PKCE values never change; the authorize URL carries
\* the challenge of the verifier and the state; every /redirect and every unauthenticated
\* /import redirects to that URL and every /callback presents that verifier and state.
C25_PkceFixedAtStart ==
    /\ [](pkce # NotStarted =>
            /\ pkce.auth_uri.code_challenge = pkce.code_challenge
            /\ pkce.auth_uri.state = pkce.state)
    /\ [](response.req = "redirect" => response.body = pkce.auth_uri)
    /\ []((response.req = "import" /\ "access_token" \notin DOMAIN tokens) =>
            response.body = pkce.auth_uri)
    /\ [](response.req = "callback" =>
            response.proof = [code_verifier |-> pkce.code_verifier, state |-> pkce.state])
    /\ [][pkce # NotStarted => pkce' = pkce]_vars

C25_Witness ==
    /\ response.req = "callback"
    /\ response.last = "ok"
    /\ response.status = 302
    /\ response.body = StoredPath("nb.ipynb")
    /\ pkce.code_verifier = "v2"
    /\ response.proof.code_verifier = "v2"

\* C26 (as claimed): after a relay start the challenge is the S256 digest of the verifier and
\* the start has checked the challenge's format before it built the authorize URL.
C26_ChallengeCheckedAtStart ==
    pkce # NotStarted =>
       /\ pkce.code_challenge = S256(pkce.code_verifier)
       /\ \E i \in DOMAIN pkce.startup, j \in DOMAIN pkce.startup :
             /\ i < j
             /\ pkce.startup[i] = "check_challenge_format"
             /\ pkce.startup[j] = "create_authorization_url"

\* C27 (as claimed): a verified submission rejected for its nonce leaves token_data,
\* access_token and nonce as they were, also when token_data holds a token.
C27_RejectedSubmissionChangesNothing ==
    [][\A m \in Methods, a \in VerifyArgs, d \in Payloads :
          (/\ Truthy(token_data)
           /\ VerifyFlag(m, a)
           /\ d.id_token.nonce # nonce
           /\ TokenSubmit(m, a, d)) => UNCHANGED <<token_data, access_token, nonce>>]_vars

\* C28 (as claimed): when connect() returns normally, after a fresh login or by the cached
\* token short-circuit, access_token is token_data['access_token'].
C28_ReturnedAccessTokenMatches ==
    [][(\/ /\ \E n \in Timeouts : ConnectStart(NoConfig, n, "None")
           /\ result' = AlreadyValid
        \/ /\ StopServerFinish
           /\ result' = Connected) =>
          /\ Truthy(token_data')
          /\ access_token' = token_data'.access_token]_vars

\* C29 (as claimed): at most one listener is bound and _server is that listener; no connect()
\* ends in a bind failure.
C29_SingleListener ==
    /\ Cardinality(listening) <= 1
    /\ listening # {} => server.sockets = listening
    /\ result.outcome # "OSError"

\* C30 (as claimed): the token the wait loop of connect() takes, and the token_data a fresh
\* login returns with, hold an id_token.exp in the future.
C30_FreshLoginTokenNotExpired ==
    [][/\ (ConnectPoll /\ pc' = "stopping") => token_data.id_token.exp > now
       /\ (StopServerFinish /\ result' = Connected) =>
             /\ Truthy(token_data')
             /\ token_data'.id_token.exp > now']_vars

\* C31 (as claimed): a stop_server() call never raises and ends with no listener running,
\* _server None and the port cleared, whether or not a listener was running.
C31_StopServerAlwaysSafe ==
    (result.op = "stop_server" /\ pc = "idle") =>
       /\ result.outcome = "ok"
       /\ listening = {}
       /\ server = NoServer
       /\ port = 0

\* C32: a /callback whose code exchange does not succeed, by exhausted retries or by an
\* error other than a connection error, leaves application.tokens as it was.
C32_FailedExchangeKeepsTokens ==
    [][(response'.req = "callback" /\ response'.last # "ok") => tokens' = tokens]_vars

C32_Witness ==
    /\ tokens # EmptyDict
    /\ response.req = "callback"
    /\ response.exc = "OAuthError"
    /\ response.calls = 1
    /\ response.status = 500

\* C33 (as claimed): when the device-code request is answered with a status >= 500 or an
\* error field, device_connect returns without raising, does not start polling and leaves
\* access_token and token_data as they were.
C33_DeviceCodeErrorReturns ==
    [][\A c \in Configs, sc \in Scopes, r \in DeviceCodeResponses :
          (/\ ~SettingsMissing(WithConfig(c))
           /\ r.status >= 500 \/ r.error
           /\ DeviceStart(c, sc, r)) =>
             /\ result' = Res("device_connect", "returned", TRUE)
             /\ pc' = "idle"
             /\ UNCHANGED <<access_token, token_data>>]_vars

====
